---- MODULE Spec2Model ----
(***************************************************************************)
(* Recommendations service: the Recommendation entity (service/models.py)  *)
(* and the REST handlers that act on it (service/routes.py).               *)
(*                                                                         *)
(* The store is the single table behind db.session.  A request is handled  *)
(* from find() to the response in one step.  Nullable values are modelled  *)
(* as sequences: None is <<>> and a value v is <<v>>.                      *)
(***************************************************************************)
EXTENDS Integers, Sequences, FiniteSets, TLC

VARIABLES store, nextId, request, response

vars == <<store, nextId, request, response>>

-----------------------------------------------------------------------------
(* Bounds of the model *)

\* rows ever inserted: the serial primary key runs over 1..MaxId
MaxId == 1
\* likes a record collects before the like handler is no longer exercised
MaxLikes == 1
\* sends a record collects before the send handler is no longer exercised
MaxSend == 1
\* rows ever inserted where several records are stored side by side
MaxRows == 2

-----------------------------------------------------------------------------
(* Values *)

None == <<>>
Some(v) == <<v>>

HTTP_200_OK == 200
HTTP_201_CREATED == 201
HTTP_204_NO_CONTENT == 204
HTTP_400_BAD_REQUEST == 400
HTTP_404_NOT_FOUND == 404
HTTP_409_CONFLICT == 409

\* class RecommendationType(Enum): member name -> value
RecommendationType ==
    [CROSS_SELL |-> "cross_sell", UP_SELL |-> "up_sell",
     ACCESSORY |-> "accessory", TRENDING |-> "trending"]

\* class RecommendationStatus(Enum): member name -> value
RecommendationStatus ==
    [ACTIVE |-> "active", INACTIVE |-> "inactive",
     DRAFT |-> "draft", DELETED |-> "deleted"]

StatusMembers == DOMAIN RecommendationStatus
TypeMembers == DOMAIN RecommendationType

\* ids a request path can carry: every id the store has assigned so far,
\* and 0 for the ids it has assigned to no record
ReqIds == 0..(nextId - 1)

\* names a request body or a caller can carry
Names == {"A"}

-----------------------------------------------------------------------------
(* The entity *)

\* The table schema: the columns of class Recommendation, unset on a fresh
\* in-memory object.  weighted_score, rationale, valid_from and valid_to are
\* read and written by no operation and left out.
SchemaColumns ==
    [id |-> None, name |-> None, base_product_id |-> None,
     recommended_product_id |-> None, recommendation_type |-> None,
     status |-> None, recommendation_id |-> None]

\* The counters the handlers of routes.py read and write on a record
CounterColumns ==
    [likes |-> None, merchant_send_count |-> None]

\* Recommendation(): a fresh in-memory object, every attribute unset
Recommendation == SchemaColumns @@ CounterColumns

\* a status column that defaults to ACTIVE
SchemaDefaults_active == [status |-> Some("ACTIVE")]

\* status = db.Column(..., default=RecommendationStatus.DRAFT)
SchemaDefaults == [status |-> Some("DRAFT")]

\* likes and merchant_send_count default to 0
CounterDefaults == [likes |-> Some(0), merchant_send_count |-> Some(0)]

\* RecommendationFactory: the objects the tests build and persist.  The
\* factory numbers the ids of its objects itself and sets no name; the last
\* object is one whose base_product_id was left unset.
RecommendationFactory ==
    { [Recommendation EXCEPT
         !.id = i,
         !.base_product_id = Some(101),
         !.recommended_product_id = Some(2),
         !.recommendation_type = Some("CROSS_SELL"),
         !.status = s,
         !.recommendation_id = Some(1000)] :
      i \in {None, Some(0), Some(1)},
      s \in {None} \cup {Some(m) : m \in StatusMembers} }
    \cup
    { [Recommendation EXCEPT
         !.id = Some(0),
         !.recommended_product_id = Some(2),
         !.recommendation_type = Some("CROSS_SELL"),
         !.status = Some("ACTIVE"),
         !.recommendation_id = Some(1000)] }

\* JSON bodies of POST and PUT.  A body is an object that carries some of
\* the keys (None: the key is absent) or a JSON value that is no object.
Payload(k, n, t, b, r, s, l, i) ==
    [kind |-> k, name |-> n, recommendation_type |-> t,
     base_product_id |-> b, recommended_product_id |-> r, status |-> s,
     likes |-> l, id |-> i]

NoPayload == Payload("none", None, None, None, None, None, None, None)

\* the five required keys present and their enumeration tokens valid, with
\* and without the optional keys likes and id
ValidPayloads ==
    { Payload("dict", Some(n), Some("cross_sell"), Some(1), Some(2),
              Some("active"), None, None) : n \in Names }
    \cup
    { Payload("dict", Some(n), Some("cross_sell"), Some(1), Some(2),
              Some("active"), Some(1), Some(0)) : n \in Names }

\* a body without name, and a JSON array
InvalidPayloads ==
    { Payload("dict", None, Some("cross_sell"), Some(1), Some(2),
              Some("active"), None, None),
      Payload("list", None, None, None, None, None, None, None) }

\* a body without status (name and the other keys present)
MissingKeyPayloads ==
    { Payload("dict", Some(n), Some("cross_sell"), Some(1), Some(2),
              None, None, None) : n \in Names }

\* bodies whose status is the string "long", and whose recommendation_type
\* is the number 123 (written as the token "123": no enumeration value)
BadEnumPayloads ==
    { Payload("dict", Some(n), Some("cross_sell"), Some(1), Some(2),
              Some("long"), None, None) : n \in Names }
    \cup
    { Payload("dict", Some(n), Some("123"), Some(1), Some(2),
              Some("active"), None, None) : n \in Names }

Payloads ==
    ValidPayloads \cup InvalidPayloads \cup MissingKeyPayloads \cup BadEnumPayloads

\* serialize(): the dictionary of a record.  weighted_score, rationale,
\* valid_from and valid_to are carried by no operation and left out.
serialize(self) ==
    [id |-> self.id,
     base_product_id |-> self.base_product_id,
     recommended_product_id |-> self.recommended_product_id,
     recommendation_type |->
        IF self.recommendation_type # None
        THEN Some(RecommendationType[self.recommendation_type[1]]) ELSE None,
     status |->
        IF self.status # None
        THEN Some(RecommendationStatus[self.status[1]]) ELSE None,
     recommendation_id |-> self.recommendation_id]

\* deserialize(data): the object after the call, or the error raised.
\* data["name"] is the one key read: KeyError when it is absent, TypeError
\* when data is no dictionary; both leave the object as it was.
deserialize(self, data) ==
    IF data.kind # "dict"
    THEN [ok |-> FALSE, error |-> "TypeError", rec |-> self]
    ELSE IF data.name = None
    THEN [ok |-> FALSE, error |-> "KeyError", rec |-> self]
    ELSE [ok |-> TRUE, error |-> "", rec |-> [self EXCEPT !.name = data.name]]

\* recommendation_model: the fields api.marshal_with copies out of the
\* dictionary a handler returns; a key the dictionary lacks comes out null.
\* created_at and last_sent_at are left out.
MarshalKeys ==
    {"name", "base_product_id", "recommended_product_id",
     "recommendation_type", "status", "likes", "merchant_send_count", "id"}

marshal(d) ==
    [k \in MarshalKeys |-> IF k \in DOMAIN d THEN d[k] ELSE None]

-----------------------------------------------------------------------------
(* The persistence gateway *)

\* find() that falls back to the first row of the table (query.first())
find_first(by_id) ==
    IF by_id \in DOMAIN store THEN Some(store[by_id])
    ELSE IF DOMAIN store # {}
         THEN Some(store[CHOOSE k \in DOMAIN store : \A j \in DOMAIN store : k <= j])
         ELSE None

\* find(by_id): the persistent object of a stored row, or None
find(by_id) ==
    IF by_id \in DOMAIN store THEN Some(store[by_id]) ELSE None

\* the nullable=False columns of the table schema
NotNullColumns ==
    {"base_product_id", "recommended_product_id", "recommendation_type",
     "recommendation_id"}

\* db.session.add + commit of a new object: the INSERT.  The store assigns
\* the next serial value to an unset id and the column defaults to unset
\* columns; a NULL in a nullable=False column or a primary key already
\* taken fails the statement.
Insert(obj) ==
    LET key == IF obj.id = None THEN nextId ELSE obj.id[1]
        defaults == SchemaDefaults @@ CounterDefaults
        row == [c \in DOMAIN obj |->
                  IF c = "id" THEN Some(key)
                  ELSE IF c \in DOMAIN defaults /\ obj[c] = None
                       THEN defaults[c]
                       ELSE obj[c]]
    IN IF (\E c \in NotNullColumns : obj[c] = None) \/ key \in DOMAIN store
       THEN [ok |-> FALSE, obj |-> obj, store |-> store, nextId |-> nextId]
       ELSE [ok |-> TRUE, obj |-> row,
             store |-> [k \in DOMAIN store \cup {key} |->
                           IF k = key THEN row ELSE store[k]],
             nextId |-> IF obj.id = None THEN nextId + 1 ELSE nextId]

\* create() without the reset of self.id
create_keep_id(self) ==
    Insert(self)

\* create(): self.id = None, then add and commit; a failure is rolled back
\* and raised as DataValidationError
create(self) ==
    Insert([self EXCEPT !.id = None])

\* update() that writes the object over the first row of the table
update_first(self) ==
    [k \in DOMAIN store |->
        IF \A j \in DOMAIN store : k <= j THEN self ELSE store[k]]

\* update(): commit of the changes made to a persistent object
update(self) ==
    [k \in DOMAIN store |-> IF Some(k) = self.id THEN self ELSE store[k]]

\* delete() that empties the table
delete_all(self) ==
    [k \in {} |-> self]

\* delete(): removes the row of a persistent object
delete(self) ==
    [k \in {j \in DOMAIN store : Some(j) # self.id} |-> store[k]]

\* a commit whose failure leaves the pending changes in the table
commit_no_rollback(fails, written) ==
    [ok |-> ~fails, store |-> written]

\* try: ... db.session.commit()
\* except Exception: db.session.rollback(); raise DataValidationError
\* fails: the store raises; written: the table as the commit leaves it
commit(fails, written) ==
    IF fails
    THEN [ok |-> FALSE, store |-> store]
    ELSE [ok |-> TRUE, store |-> written]

-----------------------------------------------------------------------------
(* Requests and responses *)

\* op, id, payload and obj are what the caller sent; found is what find()
\* returned when the handler started
Request(op, id, payload, obj) ==
    [op |-> op, id |-> id, payload |-> payload, obj |-> obj,
     found |-> IF op \in {"create", "post", "none"} THEN None ELSE find(id)]

\* code: the HTTP status (0 for a direct call of the gateway); error: the
\* exception the call ended with; body: the body, None when there is none;
\* location: the id the Location header points at
Response(code, error, body) ==
    [code |-> code, error |-> error, body |-> body, location |-> None]

\* the outcome of a direct call of the gateway: no HTTP status
DirectCall(error, body) == Response(0, error, body)

\* abort(404, "Recommendation Not Found")
NotFound == Response(HTTP_404_NOT_FOUND, "NotFound", None)

\* abort(409, "... is not active.")
Conflict == Response(HTTP_409_CONFLICT, "Conflict", None)

\* a DataValidationError that leaves a handler is answered with 400
BadRequest == Response(HTTP_400_BAD_REQUEST, "DataValidationError", None)

Init ==
    /\ store = <<>>
    /\ nextId = 1
    /\ request = Request("none", 0, NoPayload, Recommendation)
    /\ response = DirectCall("", None)

-----------------------------------------------------------------------------
(* Direct calls of the gateway, as the tests make them *)

\* obj.create() for an object of objs, while fewer than cap rows were
\* inserted; failures: whether the store may raise for a reason of its own
\* (test_create_rollback_on_failure).  The body of the outcome is the
\* in-memory object after the call.
CreateOf(objs, cap, failures) ==
    \E obj \in objs, fails \in failures :
        LET res == create(obj)
            done == commit(fails \/ ~res.ok, res.store)
        IN /\ done.ok => nextId <= cap
           /\ request' = Request("create", 0, NoPayload, obj)
           /\ store' = done.store
           /\ nextId' = IF done.ok THEN res.nextId ELSE nextId
           /\ response' =
                IF done.ok
                THEN DirectCall("", Some(res.obj))
                ELSE DirectCall("DataValidationError",
                                Some(IF res.ok THEN [obj EXCEPT !.id = None]
                                     ELSE res.obj))

\* RecommendationFactory(...).create()
Create ==
    CreateOf(RecommendationFactory, MaxId, {FALSE})

\* the factory objects persisted where several records are stored
RowFactory ==
    { obj \in RecommendationFactory :
        /\ obj.base_product_id # None
        /\ obj.id = Some(0)
        /\ obj.status \in {None, Some("ACTIVE")} }

\* RecommendationFactory(...).create() with a store that may raise
CreateRow ==
    CreateOf(RowFactory, MaxRows, BOOLEAN)

\* rec.name = ...; rec.update() on a persistent object, with a store that
\* may raise (test_update_rollback_on_failure).  After the rollback the
\* object shows the stored values again.
Update ==
    \E by_id \in ReqIds, n \in Names, fails \in BOOLEAN :
        LET rec == find(by_id)
            changed == [rec[1] EXCEPT !.name = Some(n)]
            done == commit(fails, update(changed))
        IN /\ rec # None
           /\ request' = Request("rec.update", by_id, NoPayload, changed)
           /\ store' = done.store
           /\ response' =
                IF done.ok
                THEN DirectCall("", Some(changed))
                ELSE DirectCall("DataValidationError", rec)
           /\ UNCHANGED nextId

\* rec.delete() on a persistent object, with a store that may raise
\* (test_delete_rollback_on_failure), and on an object that was never
\* persisted, for which db.session.delete raises
\* (test_delete_nonexistent_recommendation)
Delete ==
    \E by_id \in ReqIds, fails \in BOOLEAN :
        LET rec == find(by_id)
            done == commit(fails \/ rec = None,
                           IF rec # None THEN delete(rec[1]) ELSE store)
        IN /\ request' = Request("rec.delete", by_id, NoPayload, Recommendation)
           /\ store' = done.store
           /\ response' =
                IF done.ok
                THEN DirectCall("", None)
                ELSE DirectCall("DataValidationError", rec)
           /\ UNCHANGED nextId

-----------------------------------------------------------------------------
(* /recommendations/{id} *)

\* RecommendationResource.get
RecommendationResource_get ==
    \E recommendation_id \in ReqIds :
        LET recommendation == find(recommendation_id)
        IN /\ request' = Request("get", recommendation_id, NoPayload, Recommendation)
           /\ response' =
                IF recommendation = None
                THEN NotFound
                ELSE Response(HTTP_200_OK, "",
                              Some(marshal(serialize(recommendation[1]))))
           /\ UNCHANGED <<store, nextId>>

\* RecommendationResource.put
RecommendationResource_put ==
    \E recommendation_id \in ReqIds, data \in Payloads :
        LET recommendation == find(recommendation_id)
            des == deserialize(recommendation[1], data)
            updated == [des.rec EXCEPT !.id = Some(recommendation_id)]
        IN /\ request' = Request("put", recommendation_id, data, Recommendation)
           /\ IF recommendation = None
              THEN /\ response' = NotFound
                   /\ UNCHANGED store
              ELSE IF ~des.ok
              THEN /\ response' = BadRequest
                   /\ UNCHANGED store
              ELSE /\ store' = update(updated)
                   /\ response' =
                        Response(HTTP_200_OK, "", Some(marshal(serialize(updated))))
           /\ UNCHANGED nextId

\* RecommendationResource.delete
RecommendationResource_delete ==
    \E recommendation_id \in ReqIds :
        LET recommendation == find(recommendation_id)
        IN /\ request' = Request("delete", recommendation_id, NoPayload, Recommendation)
           /\ store' = IF recommendation # None
                       THEN delete(recommendation[1]) ELSE store
           /\ response' = Response(HTTP_204_NO_CONTENT, "", None)
           /\ UNCHANGED nextId

-----------------------------------------------------------------------------
(* /recommendations *)

\* RecommendationCollection.post
RecommendationCollection_post ==
    \E data \in Payloads :
        LET des == deserialize(Recommendation, data)
            res == create(des.rec)
        IN /\ (des.ok /\ res.ok) => nextId <= MaxId
           /\ request' = Request("post", 0, data, Recommendation)
           /\ IF ~des.ok
              THEN /\ response' = BadRequest
                   /\ UNCHANGED <<store, nextId>>
              ELSE IF ~res.ok
              THEN /\ response' = BadRequest
                   /\ UNCHANGED <<store, nextId>>
              ELSE /\ store' = res.store
                   /\ nextId' = res.nextId
                   /\ response' =
                        [Response(HTTP_201_CREATED, "",
                                  Some(marshal(serialize(res.obj))))
                           EXCEPT !.location = res.obj.id]

\* recommendation_args: the query arguments of the list; None: the argument
\* is not in the query string
Args(a, b, t, s, o) ==
    [product_a_id |-> a, base_product_id |-> b, relationship_type |-> t,
     status |-> s, sort |-> o]

\* a string argument that is present and not empty (if relationship_type:)
Truthy(v) == v # None /\ v[1] # ""

\* an enumeration call that answers an unknown value with a member no
\* record has
by_value_strict(enum, value) ==
    IF \E m \in DOMAIN enum : enum[m] = value
    THEN Some(CHOOSE m \in DOMAIN enum : enum[m] = value)
    ELSE Some("")

\* RecommendationType(value), RecommendationStatus(value): the member with
\* that value; None when the call raises ValueError and the filter is
\* skipped
by_value(enum, value) ==
    IF \E m \in DOMAIN enum : enum[m] = value
    THEN Some(CHOOSE m \in DOMAIN enum : enum[m] = value)
    ELSE None

\* a query whose filters are combined by OR
filtered_any(args) ==
    LET filter_id == IF args.product_a_id # None
                     THEN args.product_a_id ELSE args.base_product_id
        type_enum == IF Truthy(args.relationship_type)
                     THEN by_value(RecommendationType, args.relationship_type[1])
                     ELSE None
        status_enum == IF Truthy(args.status)
                       THEN by_value(RecommendationStatus, args.status[1])
                       ELSE None
    IN { k \in DOMAIN store :
           \/ filter_id = None /\ type_enum = None /\ status_enum = None
           \/ filter_id # None /\ store[k].base_product_id = filter_id
           \/ type_enum # None /\ store[k].recommendation_type = type_enum
           \/ status_enum # None /\ store[k].status = status_enum }

\* the query after the filters: the ids of the rows it selects
filtered(args) ==
    LET filter_id == IF args.product_a_id # None
                     THEN args.product_a_id ELSE args.base_product_id
        type_enum == IF Truthy(args.relationship_type)
                     THEN by_value(RecommendationType, args.relationship_type[1])
                     ELSE None
        status_enum == IF Truthy(args.status)
                       THEN by_value(RecommendationStatus, args.status[1])
                       ELSE None
    IN { k \in DOMAIN store :
           /\ filter_id # None => store[k].base_product_id = filter_id
           /\ type_enum # None => store[k].recommendation_type = type_enum
           /\ status_enum # None => store[k].status = status_enum }

\* a whitelist that also accepts the token bogus
valid_sort_fields_bogus ==
    [created_at_asc |-> [column |-> "created_at", desc |-> FALSE],
     created_at_desc |-> [column |-> "created_at", desc |-> TRUE],
     name_asc |-> [column |-> "name", desc |-> FALSE],
     name_desc |-> [column |-> "name", desc |-> TRUE],
     id_asc |-> [column |-> "id", desc |-> FALSE],
     id_desc |-> [column |-> "id", desc |-> TRUE],
     bogus |-> [column |-> "id", desc |-> FALSE]]

\* valid_sort_fields: sort token -> column and direction
valid_sort_fields ==
    [created_at_asc |-> [column |-> "created_at", desc |-> FALSE],
     created_at_desc |-> [column |-> "created_at", desc |-> TRUE],
     name_asc |-> [column |-> "name", desc |-> FALSE],
     name_desc |-> [column |-> "name", desc |-> TRUE],
     id_asc |-> [column |-> "id", desc |-> FALSE],
     id_desc |-> [column |-> "id", desc |-> TRUE]]

\* the collation of the names in use
NameRank == [A |-> 1, B |-> 2]

\* created_at of a row: the store stamps a row when it inserts it, and rows
\* are inserted in the order of their serial ids
created_at(row) == row.id[1]

\* the position of a row in the ascending order of a column.  A NULL name
\* sorts after every name (the NULLS LAST of an ascending PostgreSQL order,
\* NULLS FIRST of a descending one).
sort_key(row, column) ==
    IF column = "id" THEN row.id[1]
    ELSE IF column = "created_at" THEN created_at(row)
    ELSE IF row.name = None THEN Cardinality(DOMAIN NameRank) + 1
    ELSE NameRank[row.name[1]]

\* an order_by that ignores the direction
order_by_asc(keys, by) ==
    { q \in [1..Cardinality(keys) -> keys] :
        /\ \A i, j \in DOMAIN q : q[i] = q[j] => i = j
        /\ \A i, j \in DOMAIN q :
              i < j => sort_key(store[q[i]], by.column)
                         <= sort_key(store[q[j]], by.column) }

\* query.order_by(...).all(): the orders in which the store may return the
\* selected rows; rows that are equal in the column come in any order
order_by(keys, by) ==
    { q \in [1..Cardinality(keys) -> keys] :
        /\ \A i, j \in DOMAIN q : q[i] = q[j] => i = j
        /\ \A i, j \in DOMAIN q :
              i < j => IF by.desc
                       THEN sort_key(store[q[i]], by.column)
                              >= sort_key(store[q[j]], by.column)
                       ELSE sort_key(store[q[i]], by.column)
                              <= sort_key(store[q[j]], by.column) }

\* the list request: args are the query arguments the caller sent
ListRequest(args) ==
    [op |-> "list", id |-> 0, payload |-> NoPayload, obj |-> Recommendation,
     found |-> None, args |-> args]

\* abort(400, "Invalid sort parameter. ...")
InvalidSort == Response(HTTP_400_BAD_REQUEST, "BadRequest", None)

\* the query strings of the list requests: every combination of the
\* filters without sort, and every sort value with no filter, with three
\* valid filters and with two unparseable filters
ListArgs ==
    { Args(a, b, t, s, None) :
        a \in {None, Some(101)}, b \in {None, Some(999)},
        t \in {None, Some("accessory"), Some("invalid_type")},
        s \in {None, Some("active"), Some("invalid_status")} }
    \cup
    { Args(f[1], None, f[2], f[3], Some(o)) :
        f \in { <<None, None, None>>,
                <<Some(101), Some("accessory"), Some("active")>>,
                <<None, Some("invalid_type"), Some("invalid_status")>> },
        o \in DOMAIN valid_sort_fields \cup {"bogus", ""} }

\* RecommendationCollection.get
RecommendationCollection_get ==
    \E args \in ListArgs :
        LET sort_param == args.sort
            by == IF Truthy(sort_param) /\ sort_param[1] \in DOMAIN valid_sort_fields
                  THEN valid_sort_fields[sort_param[1]]
                  ELSE valid_sort_fields.id_asc
        IN /\ request' = ListRequest(args)
           /\ IF Truthy(sort_param) /\ sort_param[1] \notin DOMAIN valid_sort_fields
              THEN response' = InvalidSort
              ELSE \E recommendations \in order_by(filtered(args), by) :
                      response' =
                        Response(HTTP_200_OK, "",
                                 Some([i \in DOMAIN recommendations |->
                                         marshal(serialize(store[recommendations[i]]))]))
           /\ UNCHANGED <<store, nextId>>

-----------------------------------------------------------------------------
(* /recommendations/{id}/like *)

\* a guard that rejects only cancelled records
NotActive_inactive_only(recommendation) ==
    recommendation.status = Some("INACTIVE")

\* recommendation.status != RecommendationStatus.ACTIVE, the guard of like
\* and of dislike
NotActive(recommendation) ==
    recommendation.status # Some("ACTIVE")

\* recommendation.likes += 1
liked(recommendation) ==
    [recommendation EXCEPT !.likes = Some(@[1] + 1)]

\* dislike without the floor
disliked_no_floor(recommendation) ==
    [recommendation EXCEPT !.likes = Some(@[1] - 1)]

\* dislike whose floor is one too high (likes > 1)
disliked_floor_one(recommendation) ==
    IF recommendation.likes[1] > 1
    THEN [recommendation EXCEPT !.likes = Some(@[1] - 1)]
    ELSE recommendation

\* if recommendation.likes > 0: recommendation.likes -= 1 (and update();
\* without a change the commit writes nothing)
disliked(recommendation) ==
    IF recommendation.likes[1] > 0
    THEN [recommendation EXCEPT !.likes = Some(@[1] - 1)]
    ELSE recommendation

\* LikeResource.put
LikeResource_put ==
    \E recommendation_id \in ReqIds :
        LET recommendation == find(recommendation_id)
        IN /\ request' = Request("like", recommendation_id, NoPayload, Recommendation)
           /\ IF recommendation = None
              THEN /\ response' = NotFound
                   /\ UNCHANGED store
              ELSE IF NotActive(recommendation[1])
              THEN /\ response' = Conflict
                   /\ UNCHANGED store
              ELSE /\ recommendation[1].likes[1] < MaxLikes
                   /\ store' = update(liked(recommendation[1]))
                   /\ response' =
                        Response(HTTP_200_OK, "",
                                 Some(marshal(serialize(liked(recommendation[1])))))
           /\ UNCHANGED nextId

\* LikeResource.delete
LikeResource_delete ==
    \E recommendation_id \in ReqIds :
        LET recommendation == find(recommendation_id)
        IN /\ request' = Request("dislike", recommendation_id, NoPayload, Recommendation)
           /\ IF recommendation = None
              THEN /\ response' = NotFound
                   /\ UNCHANGED store
              ELSE IF NotActive(recommendation[1])
              THEN /\ response' = Conflict
                   /\ UNCHANGED store
              ELSE /\ store' = update(disliked(recommendation[1]))
                   /\ response' =
                        Response(HTTP_200_OK, "",
                                 Some(marshal(serialize(disliked(recommendation[1])))))
           /\ UNCHANGED nextId

-----------------------------------------------------------------------------
(* /recommendations/{id}/send *)

\* a send that counts twice
sent_twice(recommendation) ==
    [recommendation EXCEPT !.merchant_send_count = Some(@[1] + 2)]

\* recommendation.merchant_send_count += 1 (last_sent_at is left out)
sent(recommendation) ==
    [recommendation EXCEPT !.merchant_send_count = Some(@[1] + 1)]

\* SendResource.post.  The handler returns its dictionary unmarshalled;
\* the tracking code and the timestamps of the body are left out.
SendResource_post ==
    \E recommendation_id \in ReqIds :
        LET recommendation == find(recommendation_id)
        IN /\ request' = Request("send", recommendation_id, NoPayload, Recommendation)
           /\ IF recommendation = None
              THEN /\ response' = NotFound
                   /\ UNCHANGED store
              ELSE /\ recommendation[1].merchant_send_count[1] < MaxSend
                   /\ store' = update(sent(recommendation[1]))
                   /\ response' =
                        Response(HTTP_200_OK, "",
                                 Some(serialize(sent(recommendation[1]))))
           /\ UNCHANGED nextId

-----------------------------------------------------------------------------
(* /recommendations/{id}/cancel and /recommendations/{id}/activate *)

\* cancel that toggles between INACTIVE and ACTIVE
cancelled_toggle(recommendation) ==
    IF recommendation.status # Some("INACTIVE")
    THEN [recommendation EXCEPT !.status = Some("INACTIVE")]
    ELSE [recommendation EXCEPT !.status = Some("ACTIVE")]

\* cancel that marks the record deleted
cancelled_deleted(recommendation) ==
    IF recommendation.status # Some("INACTIVE")
    THEN [recommendation EXCEPT !.status = Some("DELETED")]
    ELSE recommendation

\* if status != INACTIVE: status = INACTIVE
cancelled(recommendation) ==
    IF recommendation.status # Some("INACTIVE")
    THEN [recommendation EXCEPT !.status = Some("INACTIVE")]
    ELSE recommendation

\* activate that reactivates cancelled records only
activated_from_inactive(recommendation) ==
    IF recommendation.status = Some("INACTIVE")
    THEN [recommendation EXCEPT !.status = Some("ACTIVE")]
    ELSE recommendation

\* activate that starts the record over without likes
activated_clears_likes(recommendation) ==
    IF recommendation.status # Some("ACTIVE")
    THEN [recommendation EXCEPT !.status = Some("ACTIVE"), !.likes = Some(0)]
    ELSE recommendation

\* if status != ACTIVE: status = ACTIVE
activated(recommendation) ==
    IF recommendation.status # Some("ACTIVE")
    THEN [recommendation EXCEPT !.status = Some("ACTIVE")]
    ELSE recommendation

\* CancelResource.put
CancelResource_put ==
    \E recommendation_id \in ReqIds :
        LET recommendation == find(recommendation_id)
        IN /\ request' = Request("cancel", recommendation_id, NoPayload, Recommendation)
           /\ IF recommendation = None
              THEN /\ response' = NotFound
                   /\ UNCHANGED store
              ELSE /\ store' = update(cancelled(recommendation[1]))
                   /\ response' =
                        Response(HTTP_200_OK, "",
                                 Some(marshal(serialize(cancelled(recommendation[1])))))
           /\ UNCHANGED nextId

\* ActivateResource.put
ActivateResource_put ==
    \E recommendation_id \in ReqIds :
        LET recommendation == find(recommendation_id)
        IN /\ request' = Request("activate", recommendation_id, NoPayload, Recommendation)
           /\ IF recommendation = None
              THEN /\ response' = NotFound
                   /\ UNCHANGED store
              ELSE /\ store' = update(activated(recommendation[1]))
                   /\ response' =
                        Response(HTTP_200_OK, "",
                                 Some(marshal(serialize(activated(recommendation[1])))))
           /\ UNCHANGED nextId

-----------------------------------------------------------------------------

Next ==
    \/ Create
    \/ RecommendationResource_get
    \/ RecommendationResource_put
    \/ RecommendationResource_delete
    \/ RecommendationCollection_post
    \/ LikeResource_put
    \/ LikeResource_delete
    \/ SendResource_post
    \/ CancelResource_put
    \/ ActivateResource_put

Spec == Init /\ [][Next]_vars

\* Several records side by side: the gateway with a store that may raise,
\* and the handlers of /recommendations/{id}
NextRows ==
    \/ CreateRow
    \/ Update
    \/ Delete
    \/ RecommendationResource_get
    \/ RecommendationResource_put
    \/ RecommendationResource_delete

SpecRows == Init /\ [][NextRows]_vars

\* the factory objects persisted for the requests that act on one record
TargetFactory ==
    { obj \in RecommendationFactory :
        /\ obj.base_product_id # None
        /\ obj.id = Some(0)
        /\ obj.status = Some("ACTIVE") }

\* RecommendationFactory(status=RecommendationStatus.ACTIVE).create()
CreateTarget ==
    CreateOf(TargetFactory, MaxRows, {FALSE})

\* Several records side by side and the requests that act on one of them
NextTargets ==
    \/ CreateTarget
    \/ LikeResource_put
    \/ LikeResource_delete
    \/ SendResource_post
    \/ CancelResource_put
    \/ ActivateResource_put

SpecTargets == Init /\ [][NextTargets]_vars

\* the named factory objects persisted for the list: they differ in one
\* column from the matching ones (101, ACCESSORY, ACTIVE)
ListFactory ==
    { [Recommendation EXCEPT
         !.id = Some(0),
         !.name = o[1],
         !.base_product_id = Some(o[2]),
         !.recommended_product_id = Some(2),
         !.recommendation_type = Some(o[3]),
         !.status = Some(o[4]),
         !.recommendation_id = Some(1000)] :
      o \in { <<Some("A"), 101, "ACCESSORY", "ACTIVE">>,
              <<Some("B"), 101, "ACCESSORY", "ACTIVE">>,
              <<None, 999, "ACCESSORY", "ACTIVE">>,
              <<Some("A"), 101, "CROSS_SELL", "ACTIVE">>,
              <<Some("B"), 101, "ACCESSORY", "INACTIVE">> } }

\* RecommendationFactory(base_product_id=..., ...).create()
CreateListed ==
    CreateOf(ListFactory, MaxRows, {FALSE})

\* Several records side by side and the list of /recommendations
NextList ==
    \/ CreateListed
    \/ RecommendationCollection_get

SpecList == Init /\ [][NextList]_vars

-----------------------------------------------------------------------------
(* Two requests in flight.  Each request runs in a database session of its *)
(* own: find() loads the row into the session, the handler works on the    *)
(* loaded object, and commit() writes the attributes the handler changed.  *)
(* Here request and response hold one entry for each session.              *)

Sessions == {"s1", "s2"}

\* the bodies of the concurrent updates: they differ in every field
PutBodies ==
    { Payload("dict", Some("A"), Some("cross_sell"), Some(1), Some(2),
              Some("active"), None, None),
      Payload("dict", Some("B"), Some("up_sell"), Some(3), Some(4),
              Some("inactive"), None, None) }

\* a request in flight.  pc: "idle" before the request, "loaded" after
\* find(), "done" after the response; found: what find() loaded; order:
\* the position of its commit among the commits
InFlight(op, id, payload, found, pc, order) ==
    [op |-> op, id |-> id, payload |-> payload, found |-> found,
     pc |-> pc, order |-> order]

InitSessions ==
    /\ store = <<>>
    /\ nextId = 1
    /\ request = [s \in Sessions |->
                    InFlight("none", 0, NoPayload, None, "idle", 0)]
    /\ response = [s \in Sessions |-> DirectCall("", None)]

\* RecommendationFactory(status=RecommendationStatus.ACTIVE).create(),
\* before or between the requests
Session_create ==
    \E obj \in TargetFactory :
        LET res == create(obj)
        IN /\ res.ok
           /\ nextId <= MaxId
           /\ store' = res.store
           /\ nextId' = res.nextId
           /\ UNCHANGED <<request, response>>

\* the first step of LikeResource.put, LikeResource.delete,
\* CancelResource.put and RecommendationResource.put:
\* recommendation = Recommendation.find(recommendation_id)
Session_find ==
    \E s \in Sessions, recommendation_id \in ReqIds,
       op \in {"like", "dislike", "cancel", "put"}, data \in PutBodies \cup {NoPayload} :
        /\ request[s].pc = "idle"
        /\ (op = "put") = (data \in PutBodies)
        /\ request' = [request EXCEPT ![s] =
                          InFlight(op, recommendation_id, data,
                                   find(recommendation_id), "loaded", 0)]
        /\ UNCHANGED <<store, nextId, response>>

\* the object a handler leaves in its session, from the object find()
\* loaded: the rest of the handler up to update()
handled(op, recommendation, recommendation_id, data) ==
    IF op = "like" THEN liked(recommendation)
    ELSE IF op = "dislike" THEN disliked(recommendation)
    ELSE IF op = "cancel" THEN cancelled(recommendation)
    ELSE [deserialize(recommendation, data).rec EXCEPT
            !.id = Some(recommendation_id)]

\* the answer of a handler that does not reach update(): 404 without a
\* record, 409 for a like or dislike of a record loaded as not active
refused(op, found) ==
    IF found = None THEN NotFound
    ELSE IF op \in {"like", "dislike"} /\ NotActive(found[1]) THEN Conflict
    ELSE DirectCall("", None)

\* db.session.commit() of a session: the UPDATE sets the attributes whose
\* value differs from the loaded one, in the row as it is stored now
flush(loaded, changed) ==
    [k \in DOMAIN store |->
        IF Some(k) = loaded.id
        THEN [c \in DOMAIN store[k] |->
                IF changed[c] # loaded[c] THEN changed[c] ELSE store[k][c]]
        ELSE store[k]]

\* the rest of the handler: the checks on the loaded object, the change,
\* update() and the response
Session_commit ==
    \E s \in Sessions :
        LET r == request[s]
            changed == handled(r.op, r.found[1], r.id, r.payload)
            done == Cardinality({t \in Sessions : request[t].order > 0})
        IN /\ r.pc = "loaded"
           /\ IF refused(r.op, r.found) # DirectCall("", None)
              THEN /\ response' = [response EXCEPT ![s] = refused(r.op, r.found)]
                   /\ request' = [request EXCEPT ![s].pc = "done"]
                   /\ UNCHANGED store
              ELSE /\ store' = flush(r.found[1], changed)
                   /\ response' = [response EXCEPT ![s] =
                          Response(HTTP_200_OK, "",
                                   Some(marshal(serialize(changed))))]
                   /\ request' = [request EXCEPT ![s].pc = "done",
                                                 ![s].order = done + 1]
           /\ UNCHANGED nextId

NextSessions ==
    \/ Session_create
    \/ Session_find
    \/ Session_commit

SpecSessions == InitSessions /\ [][NextSessions]_vars

-----------------------------------------------------------------------------
(* Properties *)

\* the row find() returned to the last handler
Found == request.found[1]

Max(a, b) == IF a >= b THEN a ELSE b

\* C1: a like or a dislike of a stored record whose status is not active
\* is answered 409 and the record's likes are what they were.
C1_NotActiveIsConflict ==
    (/\ request.op \in {"like", "dislike"}
     /\ request.found # None
     /\ Found.status # Some("ACTIVE"))
    => /\ response.code = HTTP_409_CONFLICT
       /\ request.id \in DOMAIN store
       /\ store[request.id].likes = Found.likes

\* a like of a cancelled record that had collected likes was refused
C1_Witness ==
    /\ request.op = "like"
    /\ request.found # None
    /\ Found.status = Some("INACTIVE")
    /\ Found.likes[1] > 0
    /\ response.code = HTTP_409_CONFLICT

\* C2: every stored record has likes >= 0, whatever requests were made.
C2_LikesNeverNegative ==
    \A i \in DOMAIN store :
        store[i].likes # None /\ store[i].likes[1] >= 0

\* a dislike of an active record without likes was made
C2_Witness ==
    /\ request.op = "dislike"
    /\ request.found # None
    /\ Found.status = Some("ACTIVE")
    /\ Found.likes = Some(0)
    /\ response.code = HTTP_200_OK
    /\ store[request.id].likes = Some(0)

\* C3: a like of an active record is answered 200 and adds exactly 1 to
\* the record's likes, and a GET of the id that follows shows likes + 1.
C3_LikeAddsOneAndGetShowsIt ==
    [][ /\ (/\ request'.op = "like"
            /\ request'.found # None
            /\ request'.found[1].status = Some("ACTIVE"))
           => /\ response'.code = HTTP_200_OK
              /\ store'[request'.id].likes = Some(request'.found[1].likes[1] + 1)
        /\ (/\ request.op = "like"
            /\ response.code = HTTP_200_OK
            /\ request'.op = "get"
            /\ request'.id = request.id)
           => /\ response'.code = HTTP_200_OK
              /\ response'.body # None
              /\ response'.body[1].likes = Some(Found.likes[1] + 1)
      ]_vars

C5_DislikeWithoutLikesIsConflict ==
    (/\ request.op = "dislike"
     /\ request.found # None
     /\ (Found.status # Some("ACTIVE") \/ Found.likes[1] <= 0))
    => response.code = HTTP_409_CONFLICT

\* C6: activate and cancel of a stored record are answered 200 whatever
\* its status, and leave it active, respectively inactive; never 409.
C6_ActivateCancelUnguarded ==
    /\ (request.op = "activate" /\ request.found # None)
       => /\ response.code = HTTP_200_OK
          /\ request.id \in DOMAIN store
          /\ store[request.id].status = Some("ACTIVE")
    /\ (request.op = "cancel" /\ request.found # None)
       => /\ response.code = HTTP_200_OK
          /\ request.id \in DOMAIN store
          /\ store[request.id].status = Some("INACTIVE")
    /\ request.op \in {"activate", "cancel"}
       => response.code # HTTP_409_CONFLICT

\* a record whose status was deleted has been activated
C6_Witness ==
    /\ request.op = "activate"
    /\ request.found # None
    /\ Found.status = Some("DELETED")
    /\ response.code = HTTP_200_OK
    /\ store[request.id].status = Some("ACTIVE")

\* C7: an activate (a cancel) that follows an activate (a cancel) of the
\* same id changes no stored record and gets the same response.
C7_ActivateCancelIdempotent ==
    [][ (/\ request.op \in {"activate", "cancel"}
         /\ request'.op = request.op
         /\ request'.id = request.id)
        => /\ store' = store
           /\ response' = response
      ]_vars

\* a cancel found the record already inactive and answered as the first
C7_Witness ==
    /\ request.op = "cancel"
    /\ request.found # None
    /\ Found.status = Some("INACTIVE")
    /\ response.code = HTTP_200_OK
    /\ response.body[1].status = Some("inactive")
    /\ store[request.id] = Found

\* C8: read, update, like, dislike, send, cancel and activate of an id
\* that is not stored are answered 404 and change nothing in the store.
C8_AbsentIdIsNotFound ==
    [][ (/\ request'.op \in {"get", "put", "like", "dislike", "send",
                             "cancel", "activate"}
         /\ request'.id \notin DOMAIN store)
        => /\ response'.code = HTTP_404_NOT_FOUND
           /\ store' = store
           /\ nextId' = nextId
      ]_vars

\* a valid update of an id that is not stored, beside a stored record
C8_Witness ==
    /\ request.op = "put"
    /\ request.payload \in ValidPayloads
    /\ request.id \notin DOMAIN store
    /\ DOMAIN store # {}
    /\ response.code = HTTP_404_NOT_FOUND

\* C9: a POST with a valid payload is answered 201 with a Location, adds
\* one record that carries the payload's fields, and a GET of the Location
\* shows them.
C9_PostCreatesThePayload ==
    [][ /\ (request'.op = "post" /\ request'.payload \in ValidPayloads)
           => /\ response'.code = HTTP_201_CREATED
              /\ response'.location = Some(nextId)
              /\ DOMAIN store' = DOMAIN store \cup {nextId}
              /\ store'[nextId].name = request'.payload.name
              /\ store'[nextId].base_product_id = request'.payload.base_product_id
              /\ store'[nextId].likes =
                   IF request'.payload.likes = None THEN Some(0)
                   ELSE request'.payload.likes
        /\ (/\ request.op = "post"
            /\ response.code = HTTP_201_CREATED
            /\ request'.op = "get"
            /\ Some(request'.id) = response.location)
           => /\ response'.code = HTTP_200_OK
              /\ response'.body[1].name = request.payload.name
              /\ response'.body[1].status = request.payload.status
      ]_vars

\* C10: create() stores the object under the id the store chooses, whatever
\* id the caller had put on it, and fails for no id the caller supplied.
C10_CreateResetsId ==
    [][ (request'.op = "create")
        => IF response'.error = ""
           THEN /\ response'.body[1].id = Some(nextId)
                /\ nextId' = nextId + 1
                /\ DOMAIN store' = DOMAIN store \cup {nextId}
                /\ \A i \in DOMAIN store : store'[i] = store[i]
           ELSE /\ \E c \in NotNullColumns : request'.obj[c] = None
                /\ store' = store
      ]_vars

\* the caller numbered the object 0 and the store stored it as 1
C10_Witness ==
    /\ request.op = "create"
    /\ request.obj.id = Some(0)
    /\ response.error = ""
    /\ response.body[1].id = Some(1)
    /\ 1 \in DOMAIN store

\* C11: no two stored records share an id, and the id of a stored record
\* never changes: a PUT of an id whose body carries another id leaves the
\* record's id equal to the id of the path.
C11_IdUniqueAndImmutable ==
    [][ /\ \A i, j \in DOMAIN store' :
              store'[i].id = store'[j].id => i = j
        /\ \A k \in DOMAIN store \cap DOMAIN store' :
              store'[k].id = store[k].id
        /\ (/\ request'.op = "put"
            /\ request'.found # None
            /\ request'.payload.id # None)
           => /\ request'.id \in DOMAIN store'
              /\ store'[request'.id].id = Some(request'.id)
      ]_vars

\* beside another record, the second record was updated with a body that
\* carries id 0 and is still record 2
C11_Witness ==
    /\ request.op = "put"
    /\ request.id = 2
    /\ request.payload.id = Some(0)
    /\ response.code = HTTP_200_OK
    /\ DOMAIN store = {1, 2}
    /\ store[2].id = Some(2)
    /\ store[2].name = request.payload.name
    /\ store[1].id = Some(1)

RequiredKeys ==
    {"name", "recommendation_type", "base_product_id",
     "recommended_product_id", "status"}

\* a JSON object that lacks one of the required keys
MissingKey(data) ==
    data.kind = "dict" /\ \E k \in RequiredKeys : data[k] = None

\* the values of an enumeration
Values(enum) == {enum[m] : m \in DOMAIN enum}

\* a JSON object whose recommendation_type or status is no enumeration value
BadEnum(data) ==
    /\ data.kind = "dict"
    /\ \/ /\ data.recommendation_type # None
          /\ data.recommendation_type[1] \notin Values(RecommendationType)
       \/ /\ data.status # None
          /\ data.status[1] \notin Values(RecommendationStatus)

\* C13: deserialize fails with a DataValidationError, answered 400 by POST
\* and by PUT, whenever one of the five required keys is absent from the
\* body, and no record is created or changed in that case.
C13_MissingKeyIsRejected ==
    [][ (/\ request'.op \in {"post", "put"}
         /\ request'.op = "put" => request'.found # None
         /\ MissingKey(request'.payload))
        => /\ ~deserialize(Recommendation, request'.payload).ok
           /\ response'.code = HTTP_400_BAD_REQUEST
           /\ response'.error = "DataValidationError"
           /\ store' = store
      ]_vars

\* C14: the recommendation_type and the status of every stored record are
\* members of their enumerations: a create or an update whose body carries
\* a recommendation_type or a status that is no enumeration value is
\* answered 400 and nothing of it is stored.
C14_EnumsAreValidated ==
    [][ /\ \A k \in DOMAIN store' :
              /\ store'[k].recommendation_type # None
              /\ store'[k].recommendation_type[1] \in TypeMembers
              /\ store'[k].status # None
              /\ store'[k].status[1] \in StatusMembers
        /\ (/\ request'.op \in {"post", "put"}
            /\ request'.op = "put" => request'.found # None
            /\ BadEnum(request'.payload))
           => /\ response'.code = HTTP_400_BAD_REQUEST
              /\ store' = store
      ]_vars

\* the dictionary serialize() returns, read as the body of a request: a key
\* the dictionary does not have is absent
as_data(d) ==
    LET key(k) == IF k \in DOMAIN d THEN d[k] ELSE None
    IN Payload("dict", key("name"), key("recommendation_type"),
               key("base_product_id"), key("recommended_product_id"),
               key("status"), key("likes"), key("id"))

\* deserialize P, serialize the record, deserialize the result into a fresh
\* record: both calls succeed and the five fields are those of P
RoundTrip(P) ==
    LET first == deserialize(Recommendation, P)
        second == deserialize(Recommendation, as_data(serialize(first.rec)))
        again == serialize(second.rec)
    IN /\ first.ok
       /\ second.ok
       /\ second.rec.name = P.name
       /\ again.recommendation_type = P.recommendation_type
       /\ again.base_product_id = P.base_product_id
       /\ again.recommended_product_id = P.recommended_product_id
       /\ again.status = P.status

\* C15: every valid body with the five required fields round-trips through
\* deserialize, serialize and deserialize with the same name,
\* recommendation_type, base_product_id, recommended_product_id and status.
C15_RoundTrip ==
    request.payload \in ValidPayloads => RoundTrip(request.payload)

\* C16: DELETE of an id is answered 204 with an empty body whether or not
\* the id is stored; afterwards the id is absent (a GET of it is answered
\* 404) and every other stored record is unchanged, so a second DELETE of
\* the id leaves the store as the first left it.
C16_DeleteIsIdempotent ==
    [][ /\ (request'.op = "delete")
           => /\ response'.code = HTTP_204_NO_CONTENT
              /\ response'.body = None
              /\ DOMAIN store' = DOMAIN store \ {request'.id}
              /\ \A k \in DOMAIN store' : store'[k] = store[k]
        /\ (/\ request.op = "delete"
            /\ request'.op = "get"
            /\ request'.id = request.id)
           => response'.code = HTTP_404_NOT_FOUND
        /\ (/\ request.op = "delete"
            /\ request'.op = "delete"
            /\ request'.id = request.id)
           => store' = store
      ]_vars

\* the first of two stored records was deleted and the second is left
C16_Witness ==
    /\ request.op = "delete"
    /\ request.id = 1
    /\ request.found # None
    /\ response.code = HTTP_204_NO_CONTENT
    /\ DOMAIN store = {2}
    /\ store[2].id = Some(2)

\* C17: a PUT of a stored id with a valid body is answered 200 and replaces
\* the record's name, product ids, recommendation_type and status with the
\* body's values; the response and a GET of the id that follows show them.
C17_PutReplacesTheFields ==
    [][ /\ (/\ request'.op = "put"
            /\ request'.found # None
            /\ request'.payload \in ValidPayloads)
           => /\ response'.code = HTTP_200_OK
              /\ store'[request'.id].name = request'.payload.name
              /\ store'[request'.id].base_product_id =
                   request'.payload.base_product_id
              /\ store'[request'.id].recommended_product_id =
                   request'.payload.recommended_product_id
              /\ serialize(store'[request'.id]).recommendation_type =
                   request'.payload.recommendation_type
              /\ serialize(store'[request'.id]).status = request'.payload.status
              /\ response'.body # None
              /\ response'.body[1].name = request'.payload.name
              /\ response'.body[1].status = request'.payload.status
        /\ (/\ request.op = "put"
            /\ response.code = HTTP_200_OK
            /\ request.payload \in ValidPayloads
            /\ request'.op = "get"
            /\ request'.id = request.id)
           => /\ response'.code = HTTP_200_OK
              /\ response'.body[1].name = request.payload.name
              /\ response'.body[1].status = request.payload.status
      ]_vars

\* C18: a PUT of a stored id whose body lacks a required field or carries
\* an invalid enumeration value is answered 400 and the stored record is
\* exactly as before the request.
C18_InvalidPutChangesNothing ==
    [][ (/\ request'.op = "put"
         /\ request'.found # None
         /\ (MissingKey(request'.payload) \/ BadEnum(request'.payload)))
        => /\ response'.code = HTTP_400_BAD_REQUEST
           /\ request'.id \in DOMAIN store'
           /\ store'[request'.id] = store[request'.id]
      ]_vars

\* C19: when the store fails during create(), update() or delete(), a
\* DataValidationError is raised to the caller and the stored records and
\* their field values are those before the call.
C19_FailureIsRolledBack ==
    [][ /\ (/\ request'.op \in {"create", "rec.update", "rec.delete"}
            /\ response'.error # "")
           => /\ response'.error = "DataValidationError"
              /\ store' = store
        /\ (/\ request'.op = "create"
            /\ \E c \in NotNullColumns : request'.obj[c] = None)
           => response'.error = "DataValidationError"
        /\ (request'.op = "rec.delete" /\ request'.found = None)
           => response'.error = "DataValidationError"
      ]_vars

\* beside another record, update() of a renamed record failed and the store
\* still holds the record under its old name
C19_Witness ==
    /\ request.op = "rec.update"
    /\ response.error = "DataValidationError"
    /\ request.found # None
    /\ request.obj.name # Found.name
    /\ DOMAIN store = {1, 2}
    /\ store[request.id] = Found

\* C20: when create() fails, the id of the in-memory object is the value
\* it held before the call.
C20_FailedCreateKeepsId ==
    (request.op = "create" /\ response.error # "")
    => response.body[1].id = request.obj.id

\* C26: a send of a stored record is answered 200 whatever its status, adds
\* exactly 1 to its merchant_send_count, and leaves its status and its
\* likes as they were.
C26_SendCountsOnce ==
    (request.op = "send" /\ request.found # None)
    => /\ response.code = HTTP_200_OK
       /\ request.id \in DOMAIN store
       /\ store[request.id].merchant_send_count =
            Some(Found.merchant_send_count[1] + 1)
       /\ store[request.id].status = Found.status
       /\ store[request.id].likes = Found.likes

\* a record whose status is deleted was sent for the first time
C26_Witness ==
    /\ request.op = "send"
    /\ request.found # None
    /\ Found.status = Some("DELETED")
    /\ Found.merchant_send_count = Some(0)
    /\ response.code = HTTP_200_OK
    /\ store[request.id].merchant_send_count = Some(1)

\* the requests that act on one record without replacing it
TargetedActions == {"like", "dislike", "send", "cancel", "activate"}

\* C28: no like, dislike, send, cancel or activate brings a record whose
\* status is draft, active or inactive into status deleted: where one of
\* them changes a status, the new status is active or inactive.
C28_NoTransitionToDeleted ==
    [][ request'.op \in TargetedActions
        => \A k \in DOMAIN store :
              store[k].status \in {Some("DRAFT"), Some("ACTIVE"), Some("INACTIVE")}
              => /\ k \in DOMAIN store'
                 /\ store'[k].status # Some("DELETED")
                 /\ store'[k].status # store[k].status
                    => store'[k].status \in {Some("ACTIVE"), Some("INACTIVE")}
      ]_vars

\* a draft was cancelled and is inactive
C28_Witness ==
    /\ request.op = "cancel"
    /\ request.found # None
    /\ Found.status = Some("DRAFT")
    /\ response.code = HTTP_200_OK
    /\ store[request.id].status = Some("INACTIVE")

Listed == response.body[1]

ListedIds == {Listed[i].id[1] : i \in DOMAIN Listed}

\* a filter value that is no value of its enumeration
Unparseable(value, enum) == value # None /\ value[1] \notin Values(enum)

\* the six sort tokens
SortTokens ==
    {"created_at_asc", "created_at_desc", "name_asc", "name_desc",
     "id_asc", "id_desc"}

\* C21: the list returns exactly the stored records that satisfy every
\* supplied valid filter: base_product_id equals product_a_id (or the
\* base_product_id argument when product_a_id is not given), the type equals
\* relationship_type and the status equals status; every stored record
\* without a filter, and an empty list without a match.
C21_ListFiltersByAnd ==
    (request.op = "list" /\ response.code = HTTP_200_OK)
    => LET a == request.args
           pid == IF a.product_a_id # None
                  THEN a.product_a_id ELSE a.base_product_id
           expected ==
             { k \in DOMAIN store :
                 /\ pid # None => store[k].base_product_id = pid
                 /\ (a.relationship_type # None
                     /\ ~Unparseable(a.relationship_type, RecommendationType))
                    => serialize(store[k]).recommendation_type = a.relationship_type
                 /\ (a.status # None
                     /\ ~Unparseable(a.status, RecommendationStatus))
                    => serialize(store[k]).status = a.status }
       IN /\ ListedIds = expected
          /\ Cardinality(DOMAIN Listed) = Cardinality(expected)
          /\ \A i \in DOMAIN Listed :
                Listed[i] = marshal(serialize(store[Listed[i].id[1]]))

\* of a matching record and one that differs in the type only, the list
\* with the three filters returned the matching one
C21_Witness ==
    /\ request.op = "list"
    /\ request.args = Args(Some(101), Some(999), Some("accessory"),
                           Some("active"), None)
    /\ response.code = HTTP_200_OK
    /\ DOMAIN store = {1, 2}
    /\ store[1].recommendation_type = Some("CROSS_SELL")
    /\ ListedIds = {2}

\* C22: a relationship_type or status value that is no token of its
\* enumeration is ignored: the list is answered 200 with the records of the
\* same request without that argument, the other filters still applied.
C22_UnparseableFilterIsIgnored ==
    (/\ request.op = "list"
     /\ ~(Truthy(request.args.sort) /\ request.args.sort[1] \notin SortTokens)
     /\ \/ Unparseable(request.args.relationship_type, RecommendationType)
        \/ Unparseable(request.args.status, RecommendationStatus))
    => LET a == request.args
           without ==
             [a EXCEPT
                !.relationship_type =
                   IF Unparseable(@, RecommendationType) THEN None ELSE @,
                !.status =
                   IF Unparseable(@, RecommendationStatus) THEN None ELSE @]
       IN /\ response.code = HTTP_200_OK
          /\ ListedIds = filtered(without)
          /\ Cardinality(DOMAIN Listed) = Cardinality(ListedIds)

\* a list by product 101 with an unparseable type returned the record of
\* product 101 and not the one of product 999
C22_Witness ==
    /\ request.op = "list"
    /\ request.args = Args(Some(101), None, Some("invalid_type"), None, None)
    /\ response.code = HTTP_200_OK
    /\ DOMAIN store = {1, 2}
    /\ store[1].base_product_id = Some(999)
    /\ ListedIds = {2}

\* C23, as stated: a list whose sort value is not one of the six tokens is
\* answered 400 without rows, whatever filters accompany it.
C23_EverySortOutsideTheTokensIsRejected ==
    (/\ request.op = "list"
     /\ request.args.sort # None
     /\ request.args.sort[1] \notin SortTokens)
    => /\ response.code = HTTP_400_BAD_REQUEST
       /\ response.body = None

\* C23, amended: a list whose sort value is not empty and not one of the six
\* tokens is answered 400 without rows, whatever filters accompany it; an
\* empty sort value is treated as no sort: 200, the filtered records by
\* ascending id.
C23_NonEmptySortOutsideTheTokensIsRejected ==
    /\ (/\ request.op = "list"
        /\ Truthy(request.args.sort)
        /\ request.args.sort[1] \notin SortTokens)
       => /\ response.code = HTTP_400_BAD_REQUEST
          /\ response.body = None
    /\ (request.op = "list" /\ request.args.sort = Some(""))
       => /\ response.code = HTTP_200_OK
          /\ ListedIds = filtered(request.args)
          /\ \A i, j \in DOMAIN Listed :
                i < j => Listed[i].id[1] < Listed[j].id[1]

\* sort=bogus with three valid filters that a stored record matches
C23_Witness ==
    /\ request.op = "list"
    /\ request.args = Args(Some(101), None, Some("accessory"), Some("active"),
                           Some("bogus"))
    /\ filtered(request.args) # {}
    /\ response.code = HTTP_400_BAD_REQUEST
    /\ response.body = None

\* C24: with a whitelisted sort token the list is the filtered records in
\* the order of that column and direction (name_desc: names non-increasing,
\* id_desc: ids decreasing), without sort by ascending id; the sort changes
\* the order only, never which records are returned.
C24_SortOrdersTheFilteredRows ==
    (/\ request.op = "list"
     /\ response.code = HTTP_200_OK
     /\ request.args.sort # Some(""))
    => LET a == request.args
           column == IF a.sort = None THEN "id"
                     ELSE IF a.sort[1] \in {"name_asc", "name_desc"} THEN "name"
                     ELSE IF a.sort[1] \in {"id_asc", "id_desc"} THEN "id"
                     ELSE "created_at"
           desc == a.sort # None
                   /\ a.sort[1] \in {"name_desc", "id_desc", "created_at_desc"}
           key(i) == sort_key(store[Listed[i].id[1]], column)
       IN /\ ListedIds = filtered([a EXCEPT !.sort = None])
          /\ Cardinality(DOMAIN Listed) = Cardinality(ListedIds)
          /\ \A i, j \in DOMAIN Listed :
                i < j => IF desc THEN key(i) >= key(j) ELSE key(i) <= key(j)
          /\ column = "id"
             => \A i, j \in DOMAIN Listed : i < j => key(i) # key(j)

\* name_desc listed record B before record A, which was stored first
C24_Witness ==
    /\ request.op = "list"
    /\ request.args.sort = Some("name_desc")
    /\ response.code = HTTP_200_OK
    /\ DOMAIN store = {1, 2}
    /\ store[1].name = Some("A")
    /\ store[2].name = Some("B")
    /\ Listed[1].id = Some(2)
    /\ Listed[2].id = Some(1)

\* both sessions have answered a request of that kind for the same record
BothDone(op) ==
    /\ \A s \in Sessions :
          /\ request[s].pc = "done"
          /\ request[s].op = op
          /\ request[s].found # None
    /\ \A s, t \in Sessions : request[s].id = request[t].id

\* C25: two concurrent PUT of one stored id are both answered 200, and the
\* stored record is then the full body of the update that committed last,
\* never a mixture.
C25_LastPutWins ==
    BothDone("put")
    => /\ \A s \in Sessions : response[s].code = HTTP_200_OK
       /\ \E s \in Sessions :
             /\ \A t \in Sessions : request[t].order <= request[s].order
             /\ LET body == request[s].payload
                    stored == store[request[s].id]
                IN /\ stored.name = body.name
                   /\ stored.base_product_id = body.base_product_id
                   /\ stored.recommended_product_id = body.recommended_product_id
                   /\ serialize(stored).recommendation_type =
                        body.recommendation_type
                   /\ serialize(stored).status = body.status

\* C29: two concurrent likes of one active record both take effect, however
\* their find, increment and commit interleave: once both are answered 200
\* the likes are 2 higher than before.
C29_BothLikesCount ==
    (BothDone("like") /\ \A s \in Sessions : response[s].code = HTTP_200_OK)
    => \E s \in Sessions :
          /\ \A t \in Sessions :
                request[s].found[1].likes[1] <= request[t].found[1].likes[1]
          /\ store[request[s].id].likes =
                Some(request[s].found[1].likes[1] + 2)

\* C30: no like or dislike changes the likes of a record whose stored
\* status is not active when the change is committed, also when a cancel of
\* the id comes between the status check and the commit.
C30_LikesChangeOnlyWhenActive ==
    [][ \A k \in DOMAIN store \cap DOMAIN store' :
           store'[k].likes # store[k].likes
           => store[k].status = Some("ACTIVE")
      ]_vars

====
